---- MODULE Spec2Model ----
(***************************************************************************)
(* v2h.py: the Verilog-to-HTML converter.  Strings are sequences of        *)
(* one-character strings, a document is the sequence of lines readline()   *)
(* returns, and a file system is a function from paths to contents.        *)
(***************************************************************************)
EXTENDS Integers, Sequences, FiniteSets, TLC

(* ---------------------------------------------------------------------- *)
(* Bounds of the model                                                    *)
(* ---------------------------------------------------------------------- *)

\* Longest input document, in lines.
MaxLines == 3

\* Number of times the converter is invoked in a row on the same inputs.
MaxRuns == 3

\* Longest command line, in paths.
MaxArgs == 3

(* ---------------------------------------------------------------------- *)
(* Python string primitives                                               *)
(* ---------------------------------------------------------------------- *)

\* The characters str.strip() and str.split() treat as whitespace.
WhiteSpace == {" ", "\t", "\n", "\r"}

Max(a, b) == IF a >= b THEN a ELSE b

\* s[-n:]
LastChars(s, n) == SubSeq(s, Max(1, Len(s) - n + 1), Len(s))

\* s.startswith(p)
StartsWith(s, p) == Len(s) >= Len(p) /\ SubSeq(s, 1, Len(p)) = p

\* s.lstrip(chars)
LStrip(s, chars) ==
    LET keep == {i \in 1..Len(s) : s[i] \notin chars}
        first == IF keep = {} THEN Len(s) + 1
                 ELSE CHOOSE i \in keep : \A j \in keep : i <= j
    IN  SubSeq(s, first, Len(s))

\* s.rstrip(chars)
RStrip(s, chars) ==
    LET keep == {i \in 1..Len(s) : s[i] \notin chars}
        last == IF keep = {} THEN 0
                ELSE CHOOSE i \in keep : \A j \in keep : i >= j
    IN  SubSeq(s, 1, last)

\* s.strip(chars)
Strip(s, chars) == RStrip(LStrip(s, chars), chars)

\* s.replace(old, new): every non-overlapping occurrence, left to right.
\* With an empty old, new is inserted before every character and at the end.
RECURSIVE Replace(_, _, _)
Replace(s, old, new) ==
    IF old = <<>>
    THEN IF s = <<>> THEN new
         ELSE new \o <<Head(s)>> \o Replace(Tail(s), old, new)
    ELSE IF Len(s) < Len(old) THEN s
    ELSE IF SubSeq(s, 1, Len(old)) = old
         THEN new \o Replace(SubSeq(s, Len(old) + 1, Len(s)), old, new)
         ELSE <<Head(s)>> \o Replace(Tail(s), old, new)

\* s.split(): the maximal runs of non-whitespace characters, in order.
RECURSIVE Split(_)
Split(s) ==
    LET t == LStrip(s, WhiteSpace)
        ws == {i \in 1..Len(t) : t[i] \in WhiteSpace}
        stop == IF ws = {} THEN Len(t) + 1
                ELSE CHOOSE i \in ws : \A j \in ws : i <= j
    IN  IF t = <<>> THEN <<>>
        ELSE <<SubSeq(t, 1, stop - 1)>> \o Split(SubSeq(t, stop, Len(t)))

\* "".join(lines)
RECURSIVE Concat(_)
Concat(ss) == IF ss = <<>> THEN <<>> ELSE Head(ss) \o Concat(Tail(ss))

(* ---------------------------------------------------------------------- *)
(* File names                                                             *)
(* ---------------------------------------------------------------------- *)

DotV == <<".", "v">>
DotVh == <<".", "v", "h">>
DotHtml == <<".", "h", "t", "m", "l">>

base_filename(filename) == Replace(Replace(filename, DotVh, <<>>), DotV, <<>>)

output_filename(filename) == base_filename(filename) \o DotHtml

filename_to_title(filename) == Replace(base_filename(filename), <<"_">>, <<" ">>)

\* Mutation: any one-letter extension is taken for ".v".
is_verilog_filename_any_letter(filename) ==
    \/ (Len(filename) >= 2 /\ filename[Len(filename) - 1] = ".")
    \/ LastChars(filename, 3) = DotVh
is_verilog_filename(filename) ==
    LastChars(filename, 2) = DotV \/ LastChars(filename, 3) = DotVh

(* ---------------------------------------------------------------------- *)
(* Line classification                                                    *)
(* ---------------------------------------------------------------------- *)

is_comment(line) == StartsWith(line, <<"/", "/">>)

is_header(line) == StartsWith(line, <<"/", "/", "#">>)

is_blank(line) == Strip(line, {" ", "\t"}) = <<"\n">>

is_eof(line) == line = <<>>

(* ---------------------------------------------------------------------- *)
(* Page templates and the external Markdown transform                     *)
(* ---------------------------------------------------------------------- *)

\* header.format(meta_description, title, verilog_filename): the fixed parts
\* of the template are single elements, the substituted parts are spelled out.
header_format(meta, title, source) ==
    <<"<html><head>...<meta name=description content=">> \o meta
    \o <<"><title>">> \o title
    \o <<"</title></head><body><p><b><a href=./">> \o source
    \o <<">Source</a></b></p>...">>

footer == <<"<hr>...</body></html>">>

\* markdown.markdown(text) is a library call: its result is kept as the
\* source text between two markers, so that different blocks render
\* differently and equal blocks render equally.
markdown(text) == <<"<markdown>">> \o text \o <<"</markdown>">>

(* ---------------------------------------------------------------------- *)
(* Files                                                                  *)
(* ---------------------------------------------------------------------- *)

\* A path names the same file with or without a leading "./".
NormPath(path) ==
    IF StartsWith(path, <<".", "/">>) THEN SubSeq(path, 3, Len(path)) ELSE path

\* os.path.isfile(path) in the file system fs (a function from paths to contents)
isfile(fs, path) == NormPath(path) \in DOMAIN fs

\* open(name, 'r') on a text file: the object holds the lines and a position.
OpenRead(lines) == [lines |-> lines, pos |-> 0]

\* f.readline(): the next line, or "" at the end of the file
readline(file) ==
    IF file.pos < Len(file.lines) THEN file.lines[file.pos + 1] ELSE <<>>

\* the file object after f.readline()
Advance(file) ==
    IF file.pos < Len(file.lines) THEN [file EXCEPT !.pos = @ + 1] ELSE file

\* f.seek(0)
Rewind(file) == [file EXCEPT !.pos = 0]

(* ---------------------------------------------------------------------- *)
(* process_first_paragraph                                                *)
(* ---------------------------------------------------------------------- *)

\* Mutation: the skipping loop forgets the header lines.
first_skip_blank_only(line) == is_blank(line) /\ ~is_eof(line)

\* Condition of the loop that skips the headers and blank lines at the top.
first_skip_continues(line) ==
    (is_header(line) \/ is_blank(line)) /\ ~is_eof(line)

\* Condition of the loop that accumulates the first paragraph.
first_paragraph_continues(line) ==
    is_comment(line) /\ ~is_blank(line) /\ ~is_eof(line)

\* while first_skip_continues(line): line = f.readline()
RECURSIVE FirstSkipLoop(_, _)
FirstSkipLoop(line, file) ==
    IF first_skip_continues(line)
    THEN FirstSkipLoop(readline(file), Advance(file))
    ELSE [line |-> line, file |-> file]

\* while first_paragraph_continues(line):
\*     line = line.lstrip("/"); paragraph_block += line; line = f.readline()
RECURSIVE FirstParagraphLoop(_, _, _)
FirstParagraphLoop(line, file, paragraph_block) ==
    IF first_paragraph_continues(line)
    THEN FirstParagraphLoop(readline(file), Advance(file),
                            paragraph_block \o LStrip(line, {"/"}))
    ELSE [line |-> line, file |-> file, paragraph_block |-> paragraph_block]

\* paragraph_block.replace("\n", "").strip()
collapse_paragraph(paragraph_block) ==
    Strip(Replace(paragraph_block, <<"\n">>, <<>>), WhiteSpace)

\* Returns the last line read, the paragraph and the rewound file.
process_first_paragraph(line, file) ==
    LET skipped == FirstSkipLoop(line, file)
        taken == FirstParagraphLoop(skipped.line, skipped.file, <<>>)
    IN  [line |-> taken.line,
         paragraph_block |-> collapse_paragraph(taken.paragraph_block),
         file |-> Rewind(taken.file)]

(* ---------------------------------------------------------------------- *)
(* process_comments                                                       *)
(* ---------------------------------------------------------------------- *)

\* Mutation: a blank line ends the comment block.
comments_continue_no_blank(line) ==
    is_comment(line) /\ ~is_blank(line) /\ ~is_eof(line)
comments_continue(line) ==
    (is_comment(line) \/ is_blank(line)) /\ ~is_eof(line)

\* while comments_continue(line):
\*     comment_block += line.lstrip("/"); line = f.readline()
\* taken keeps the lines as they were read.
RECURSIVE CommentsLoop(_, _, _, _)
CommentsLoop(line, file, comment_block, taken) ==
    IF comments_continue(line)
    THEN CommentsLoop(readline(file), Advance(file),
                      comment_block \o LStrip(line, {"/"}), Append(taken, line))
    ELSE [line |-> line, file |-> file, comment_block |-> comment_block,
          taken |-> taken]

\* Mutation: the line the call was entered on is returned, not the line the
\* loop stopped at.
process_comments_returns_first(line, contents, file) ==
    LET loop == CommentsLoop(line, file, <<>>, <<>>)
    IN  [line |-> line,
         processed_contents |->
             contents \o markdown(loop.comment_block) \o <<"\n", "\n">>,
         file |-> loop.file,
         taken |-> loop.taken]
process_comments(line, contents, file) ==
    LET loop == CommentsLoop(line, file, <<>>, <<>>)
    IN  [line |-> loop.line,
         processed_contents |->
             contents \o markdown(loop.comment_block) \o <<"\n", "\n">>,
         file |-> loop.file,
         taken |-> loop.taken]

(* ---------------------------------------------------------------------- *)
(* add_file_links                                                         *)
(* ---------------------------------------------------------------------- *)

\* word.replace('"', '').replace(".vh", "")
link_word(word) == Replace(Replace(word, <<"\"">>, <<>>), DotVh, <<>>)

\* "./" + word + ".html"
link_filename(word) == <<".", "/">> \o word \o DotHtml

\* """<a href="{0}">{1}</a>""".format(filename, word)
link_format(filename, word) ==
    <<"<", "a", " ", "h", "r", "e", "f", "=", "\"">> \o filename
    \o <<"\"", ">">> \o word \o <<"<", "/", "a", ">">>

\* The loop over split_line: each word whose page exists is replaced, in
\* the line as it stands after the earlier words, wherever it occurs.
RECURSIVE LinkLoop(_, _, _)
LinkLoop(words, line, fs) ==
    IF words = <<>> THEN line
    ELSE LET word == link_word(Head(words))
             filename == link_filename(word)
             link == link_format(filename, word)
         IN  LinkLoop(Tail(words),
                      IF isfile(fs, filename) THEN Replace(line, word, link)
                      ELSE line,
                      fs)

add_file_links(line, fs) == LinkLoop(Split(Strip(line, WhiteSpace)), line, fs)

(* ---------------------------------------------------------------------- *)
(* process_code                                                           *)
(* ---------------------------------------------------------------------- *)

\* Mutation: the code loop also stops at a blank line.
code_continues_until_blank(line) ==
    ~is_comment(line) /\ ~is_blank(line) /\ ~is_eof(line)

code_continues(line) == ~is_comment(line) /\ ~is_eof(line)

\* while code_continues(line): code_block.append(line); line = f.readline()
RECURSIVE CodeLoop(_, _, _)
CodeLoop(line, file, code_block) ==
    IF code_continues(line)
    THEN CodeLoop(readline(file), Advance(file), Append(code_block, line))
    ELSE [line |-> line, file |-> file, code_block |-> code_block]

\* code_block[-1] on an empty list raises IndexError
indexes_empty_list(code_block) == code_block = <<>>

\* Mutation: the last line of the block is dropped whatever it is.
trim_trailing_blank_always(code_block) ==
    SubSeq(code_block, 1, Len(code_block) - 1)
\* if is_blank(code_block[-1]): code_block.pop()
trim_trailing_blank(code_block) ==
    IF is_blank(code_block[Len(code_block)])
    THEN SubSeq(code_block, 1, Len(code_block) - 1)
    ELSE code_block

\* for code_line in code_block: processed_contents += add_file_links(code_line)
render_code_lines(code_block, fs) ==
    [k \in 1..Len(code_block) |-> add_file_links(code_block[k], fs)]

\* Whether the call ends in the IndexError of line 128.
process_code_raises(line, file) ==
    indexes_empty_list(CodeLoop(line, file, <<>>).code_block)

\* The call when it returns.
process_code(line, contents, file, fs) ==
    LET loop == CodeLoop(line, file, <<>>)
        code_block == trim_trailing_blank(loop.code_block)
        rendered == render_code_lines(code_block, fs)
    IN  [line |-> loop.line,
         processed_contents |->
             contents \o <<"<pre>\n">> \o Concat(rendered) \o <<"</pre>\n\n">>,
         file |-> loop.file,
         code_block |-> code_block,
         rendered |-> rendered]

(* ---------------------------------------------------------------------- *)
(* Inputs of the model                                                    *)
(* ---------------------------------------------------------------------- *)

\* "// c\n", "//#T\n", "\n", "a\n", "ab a\n" and the quoted include "a.vh"\n
LineComment == <<"/", "/", " ", "c", "\n">>
LineHeader == <<"/", "/", "#", "T", "\n">>
LineBlank == <<"\n">>
LineCode == <<"a", "\n">>
LineCodeTwo == <<"a", "b", " ", "a", "\n">>
LineInclude == <<"\"", "a", ".", "v", "h", "\"", "\n">>

LinePool ==
    {LineComment, LineHeader, LineBlank, LineCode, LineCodeTwo, LineInclude}

\* Every document of at most MaxLines lines of the pool.
Documents == UNION {[1..n -> LinePool] : n \in 0..MaxLines}

\* "a.v", "ab.v" and "m.v" (which never exists) are Verilog names; "a.t" is not.
NameA == <<"a", ".", "v">>
NameAB == <<"a", "b", ".", "v">>
NameMissing == <<"m", ".", "v">>
NameOther == <<"a", ".", "t">>

Names == {NameA, NameAB, NameMissing, NameOther}

\* "a.vh", and "a.va.v", whose stem holds the characters ".v" too: each is
\* converted alone.
NameVh == <<"a", ".", "v", "h">>
NameDotted == <<"a", ".", "v", "a", ".", "v">>

PathNames == {NameVh, NameDotted}

\* Command lines of at most MaxArgs paths, none given twice.
Batches ==
    {args \in UNION {[1..n -> Names] : n \in 0..MaxArgs} :
        \A i, j \in 1..Len(args) : i # j => args[i] # args[j]}

\* Documents that a.v holds when it is one file of a batch.
BatchDocuments ==
    { <<LineCode>>, <<LineComment, LineBlank, LineCodeTwo>> }

\* An output page left by something else than this converter.
OldPage == <<"old">>

PageA == <<"a">> \o DotHtml
PageAB == <<"a", "b">> \o DotHtml

\* The output directory before the first run: any of the two pages may exist.
InitialPages == UNION {[S -> {OldPage}] : S \in SUBSET {PageA, PageAB}}

(* ---------------------------------------------------------------------- *)
(* State                                                                  *)
(* ---------------------------------------------------------------------- *)

VARIABLES
    argv,                    \* sys.argv[1:]
    src,                     \* the input files: path -> lines
    html,                    \* the output directory: path -> contents
    pc,                      \* "args", "loop", "exit" or "crashed"
    argi,                    \* index in argv of the for loop
    verilog_filename,
    html_filename,
    existing_file_contents,
    f,                       \* the open input file
    line,
    meta_description,
    processed_contents,
    stdout,                  \* the lines printed
    stderr,                  \* the uncaught exception, if any
    exit_code,               \* the exit status, once pc is "exit" or "crashed"
    segments,                \* history: the blocks emitted for the current file
    last,                    \* history: "updated"/"skipped" once the file is done
    run,                     \* history: number of the current invocation
    prev_html,               \* history: the output directory when this run began
    wrote,                   \* history: the paths written in this run, in order
    handled                  \* history: the inputs processed in this run, in order

vars == <<argv, src, html, pc, argi, verilog_filename, html_filename,
          existing_file_contents, f, line, meta_description,
          processed_contents, stdout, stderr, exit_code,
          segments, last, run, prev_html, wrote, handled>>

inputs == <<argv, src>>
locals == <<verilog_filename, html_filename, existing_file_contents, f, line,
            meta_description, processed_contents>>
history == <<segments, last>>

\* The interpreter's state when the script starts.
ProcessStart ==
    /\ pc = "args"
    /\ argi = 1
    /\ verilog_filename = <<>>
    /\ html_filename = <<>>
    /\ existing_file_contents = <<>>
    /\ f = OpenRead(<<>>)
    /\ line = <<>>
    /\ meta_description = <<>>
    /\ processed_contents = <<>>
    /\ stdout = <<>>
    /\ stderr = <<>>
    /\ exit_code = 0
    /\ segments = <<>>
    /\ last = "none"
    /\ wrote = <<>>
    /\ handled = <<>>

\* One document of any shape, converted alone.
InitDocument ==
    /\ argv = <<NameA>>
    /\ \E d \in Documents : src = (NameA :> d)
    /\ html \in InitialPages

\* A batch of paths: a.v and ab.v exist, m.v does not.
InitBatch ==
    /\ argv \in Batches
    /\ \E d \in BatchDocuments :
          src = (NameA :> d) @@ (NameAB :> <<LineCodeTwo>>)
                @@ (NameOther :> <<LineCode>>)
    /\ html \in InitialPages

\* One file whose name has another shape than a.v, converted alone.
InitPath ==
    /\ \E name \in PathNames, d \in BatchDocuments :
          /\ argv = <<name>>
          /\ src = (name :> d)
    /\ html \in InitialPages

\* a.v and a.vh in one batch: both are written to a.html.
InitClash ==
    /\ argv = <<NameA, NameVh>>
    /\ \E d \in BatchDocuments : src = (NameA :> d) @@ (NameVh :> <<LineCode>>)
    /\ html \in InitialPages

Init ==
    /\ InitDocument \/ InitBatch \/ InitPath \/ InitClash
    /\ ProcessStart
    /\ run = 1
    /\ prev_html = html

(* ---------------------------------------------------------------------- *)
(* The script: one action per step of the for loop over sys.argv[1:]      *)
(* ---------------------------------------------------------------------- *)

\* Mutation: the existing page is never found.
read_existing_never(fs, path) == <<>>
\* open(html_filename, 'r').read(), "" when the open raises OSError
read_existing(fs, path) ==
    IF isfile(fs, path) THEN fs[NormPath(path)] ELSE <<>>

\* Mutation: the page is written without being compared.
output_changed_always(contents, existing) == TRUE

\* processed_contents != existing_file_contents
output_changed(contents, existing) == contents # existing

\* Mutation: the commented-out "Skipping" line is printed.
status_lines_with_skipping(changed, path) ==
    IF changed THEN << <<"Updating ">> \o path >>
    ELSE << <<"Skipping ">> \o path >>

\* What is printed once a file is rendered: the "Skipping" branch is
\* commented out in the script.
status_lines(changed, path) ==
    IF changed THEN << <<"Updating ">> \o path >> ELSE <<>>

\* open(html_filename, 'w').write(processed_contents)
write_file(fs, path, contents) == (NormPath(path) :> contents) @@ fs

\* if not is_verilog_filename(verilog_filename): continue
SkipArg ==
    /\ pc = "args"
    /\ argi <= Len(argv)
    /\ ~is_verilog_filename(argv[argi])
    /\ verilog_filename' = argv[argi]
    /\ argi' = argi + 1
    /\ UNCHANGED <<inputs, html, pc, html_filename, existing_file_contents, f,
                   line, meta_description, processed_contents, stdout, stderr,
                   exit_code, history, run, prev_html, wrote, handled>>

\* open(verilog_filename, 'r') raises FileNotFoundError, which nothing
\* catches: the interpreter prints the traceback and exits with status 1.
MissingInput ==
    /\ pc = "args"
    /\ argi <= Len(argv)
    /\ is_verilog_filename(argv[argi])
    /\ argv[argi] \notin DOMAIN src
    /\ verilog_filename' = argv[argi]
    /\ html_filename' = output_filename(argv[argi])
    /\ existing_file_contents' = read_existing(html, output_filename(argv[argi]))
    /\ stderr' = Append(stderr, <<"FileNotFoundError: ">> \o argv[argi])
    /\ exit_code' = 1
    /\ pc' = "crashed"
    /\ UNCHANGED <<inputs, html, argi, f, line, meta_description,
                   processed_contents, stdout, history, run, prev_html, wrote,
                   handled>>

\* Lines 142-157: read the existing page, open the input, read its first
\* line, extract the first paragraph and start the page with the header.
BeginFile ==
    /\ pc = "args"
    /\ argi <= Len(argv)
    /\ is_verilog_filename(argv[argi])
    /\ argv[argi] \in DOMAIN src
    /\ LET name == argv[argi]
           opened == OpenRead(src[name])
           first == process_first_paragraph(readline(opened), Advance(opened))
       IN  /\ verilog_filename' = name
           /\ html_filename' = output_filename(name)
           /\ existing_file_contents' = read_existing(html, output_filename(name))
           /\ f' = first.file
           /\ line' = first.line
           /\ meta_description' = first.paragraph_block
           /\ processed_contents' =
                  header_format(first.paragraph_block, filename_to_title(name), name)
    /\ segments' = <<>>
    /\ last' = "none"
    /\ pc' = "loop"
    /\ UNCHANGED <<inputs, html, argi, stdout, stderr, exit_code, run,
                   prev_html, wrote, handled>>

\* Lines 161-163: the current line is a comment.
LoopComments ==
    /\ pc = "loop"
    /\ ~is_eof(line)
    /\ is_comment(line)
    /\ LET r == process_comments(line, processed_contents, f)
       IN  /\ line' = r.line
           /\ processed_contents' = r.processed_contents
           /\ f' = r.file
           /\ segments' = Append(segments, [kind |-> "Prose", lines |-> r.taken,
                                            rendered |-> r.taken])
    /\ UNCHANGED <<inputs, html, pc, argi, verilog_filename, html_filename,
                   existing_file_contents, meta_description, stdout, stderr,
                   exit_code, last, run, prev_html, wrote, handled>>

\* Lines 164-166: the current line is neither a comment nor blank.
LoopCode ==
    /\ pc = "loop"
    /\ ~is_eof(line)
    /\ ~is_comment(line)
    /\ ~is_comment(line) /\ ~is_blank(line)
    /\ IF process_code_raises(line, f)
       THEN /\ stderr' = Append(stderr, <<"IndexError">>)
            /\ exit_code' = 1
            /\ pc' = "crashed"
            /\ UNCHANGED <<line, processed_contents, f, segments>>
       ELSE LET r == process_code(line, processed_contents, f, html)
            IN  /\ line' = r.line
                /\ processed_contents' = r.processed_contents
                /\ f' = r.file
                /\ segments' = Append(segments, [kind |-> "Code",
                                                 lines |-> r.code_block,
                                                 rendered |-> r.rendered])
                /\ UNCHANGED <<stderr, exit_code, pc>>
    /\ UNCHANGED <<inputs, html, argi, verilog_filename, html_filename,
                   existing_file_contents, meta_description, stdout, last, run,
                   prev_html, wrote, handled>>

\* Line 167: the current line is blank.
LoopBlank ==
    /\ pc = "loop"
    /\ ~is_eof(line)
    /\ ~is_comment(line)
    /\ ~(~is_comment(line) /\ ~is_blank(line))
    /\ line' = readline(f)
    /\ f' = Advance(f)
    /\ UNCHANGED <<inputs, html, pc, argi, verilog_filename, html_filename,
                   existing_file_contents, meta_description, processed_contents,
                   stdout, stderr, exit_code, history, run, prev_html, wrote,
                   handled>>

\* Lines 168-175: the footer, then the page is written if it changed.
EndFile ==
    /\ pc = "loop"
    /\ is_eof(line)
    /\ LET contents == processed_contents \o footer
           changed == output_changed(contents, existing_file_contents)
       IN  /\ processed_contents' = contents
           /\ stdout' = stdout \o status_lines(changed, html_filename)
           /\ html' = IF changed THEN write_file(html, html_filename, contents)
                      ELSE html
           /\ wrote' = IF changed THEN Append(wrote, html_filename)
                       ELSE wrote
           /\ last' = IF changed THEN "updated" ELSE "skipped"
    /\ handled' = Append(handled, verilog_filename)
    /\ argi' = argi + 1
    /\ pc' = "args"
    /\ UNCHANGED <<inputs, verilog_filename, html_filename,
                   existing_file_contents, f, line, meta_description, stderr,
                   exit_code, segments, run, prev_html>>

\* Line 179, after the loop.
Done ==
    /\ pc = "args"
    /\ argi > Len(argv)
    /\ stdout' = Append(stdout, <<"Done.">>)
    /\ exit_code' = 0
    /\ pc' = "exit"
    /\ UNCHANGED <<inputs, html, argi, locals, stderr, history, run, prev_html,
                   wrote, handled>>

\* The converter is run again on the same command line and inputs, with
\* the output directory as the run before left it.
Rerun ==
    /\ pc \in {"exit", "crashed"}
    /\ run < MaxRuns
    /\ pc' = "args"
    /\ argi' = 1
    /\ verilog_filename' = <<>>
    /\ html_filename' = <<>>
    /\ existing_file_contents' = <<>>
    /\ f' = OpenRead(<<>>)
    /\ line' = <<>>
    /\ meta_description' = <<>>
    /\ processed_contents' = <<>>
    /\ stdout' = <<>>
    /\ stderr' = <<>>
    /\ exit_code' = 0
    /\ segments' = <<>>
    /\ last' = "none"
    /\ wrote' = <<>>
    /\ handled' = <<>>
    /\ run' = run + 1
    /\ prev_html' = html
    /\ UNCHANGED <<inputs, html>>

Next ==
    \/ SkipArg
    \/ MissingInput
    \/ BeginFile
    \/ LoopComments
    \/ LoopCode
    \/ LoopBlank
    \/ EndFile
    \/ Done
    \/ Rerun

Spec == Init /\ [][Next]_vars

(* ---------------------------------------------------------------------- *)
(* Vocabulary of the properties                                           *)
(* ---------------------------------------------------------------------- *)

\* The document being converted, or converted last.
Document == f.lines

\* The conversion of the current file is complete (footer added, page
\* compared and written if needed).
FileDone == last # "none"

\* The conversion is complete and the loop has not gone on to the next
\* argument: the script's variables are still those of that conversion.
JustDone ==
    /\ FileDone
    /\ pc = "args"
    /\ handled # <<>>
    /\ verilog_filename = handled[Len(handled)]

\* A Code line: neither comment nor blank.
IsCodeLine(l) == ~is_comment(l) /\ ~is_blank(l) /\ ~is_eof(l)

SegmentsOfKind(kind) == {k \in 1..Len(segments) : segments[k].kind = kind}

IsCodeSegment(seg) == seg.kind = "Code"

\* The line lists of the Code blocks emitted, in order.
CodeBlocks ==
    LET code == SelectSeq(segments, IsCodeSegment)
    IN  [k \in 1..Len(code) |-> code[k].lines]

\* A code run starts at a Code line and ends before the next comment line
\* or at the end of the document.
RunEnd(d, i) ==
    CHOOSE e \in i..Len(d) :
        /\ \A k \in i..e : ~is_comment(d[k])
        /\ e = Len(d) \/ is_comment(d[e + 1])

RECURSIVE CodeRunsFrom(_, _)
CodeRunsFrom(d, i) ==
    IF i > Len(d) THEN <<>>
    ELSE IF IsCodeLine(d[i])
         THEN <<SubSeq(d, i, RunEnd(d, i))>> \o CodeRunsFrom(d, RunEnd(d, i) + 1)
         ELSE CodeRunsFrom(d, i + 1)

CodeRuns(d) == CodeRunsFrom(d, 1)

EndsBlank(lines) == lines # <<>> /\ is_blank(lines[Len(lines)])

RECURSIVE WithoutFrom(_, _, _)
WithoutFrom(d, positions, i) ==
    IF i > Len(d) THEN <<>>
    ELSE (IF i \in positions THEN <<>> ELSE <<d[i]>>)
         \o WithoutFrom(d, positions, i + 1)

\* d with the lines at the given positions left out
Without(d, positions) == WithoutFrom(d, positions, 1)

\* The page at a path, "" when there is none.
PageOrEmpty(fs, path) ==
    IF NormPath(path) \in DOMAIN fs THEN fs[NormPath(path)] ELSE <<>>

\* The paths of argv that name Verilog files.
RecognizedArgs == {i \in 1..Len(argv) : is_verilog_filename(argv[i])}

Elements(seq) == {seq[k] : k \in 1..Len(seq)}

(* ---------------------------------------------------------------------- *)
(* C1: idempotence                                                        *)
(* ---------------------------------------------------------------------- *)

\* C1: the second run on unchanged inputs writes nothing and leaves the
\* output directory as the first run left it, whatever the output directory
\* held before the first run.
C1_SecondRunWritesNothing ==
    run = 2 => (wrote = <<>> /\ html = prev_html)

(* ---------------------------------------------------------------------- *)
(* C2: write only on change                                               *)
(* ---------------------------------------------------------------------- *)

\* C2: the content compared is the one at the output path when the file's
\* processing starts ("" when there is no page); the page is written in
\* the step that ends the processing iff the rendered text differs from it;
\* if they are equal nothing in the output directory changes; either way the
\* page then holds the rendered text and no other page is modified.
C2_WriteOnlyOnChange ==
    [][ /\ (pc = "args" /\ pc' = "loop") =>
               existing_file_contents' = PageOrEmpty(html, html_filename')
        /\ (pc = "loop" /\ pc' = "args") =>
               LET old == existing_file_contents
                   new == processed_contents'
                   page == NormPath(html_filename)
               IN  /\ old = PageOrEmpty(html, html_filename)
                   /\ (last' = "updated") = (new # old)
                   /\ (wrote' # wrote) = (new # old)
                   /\ (new = old) => (html' = html /\ last' = "skipped")
                   /\ page \in DOMAIN html' /\ html'[page] = new
                   /\ \A other \in DOMAIN html \ {page} :
                          other \in DOMAIN html' /\ html'[other] = html[other]
      ]_vars

\* A file has been processed whose page already held the rendered text:
\* reported skipped, nothing written in this run.
C2_Witness ==
    /\ JustDone
    /\ last = "skipped"
    /\ wrote = <<>>
    /\ processed_contents = existing_file_contents
    /\ html[NormPath(html_filename)] = processed_contents

(* ---------------------------------------------------------------------- *)
(* C3: batch resilience                                                   *)
(* ---------------------------------------------------------------------- *)

\* C3: when the run of a batch with a missing Verilog input has ended, every
\* other Verilog input of the batch has been processed and has its page, an
\* error is reported and the exit status is not zero.
C3_BatchSurvivesMissingInput ==
    (/\ pc \in {"exit", "crashed"}
     /\ \E i \in RecognizedArgs : argv[i] \notin DOMAIN src)
    => /\ \A j \in RecognizedArgs :
              argv[j] \in DOMAIN src =>
                  /\ argv[j] \in Elements(handled)
                  /\ isfile(html, output_filename(argv[j]))
       /\ stderr # <<>>
       /\ exit_code # 0

(* ---------------------------------------------------------------------- *)
(* C4: trailing-blank trim                                                *)
(* ---------------------------------------------------------------------- *)

\* C4: once a document is converted, there is one Code block per code run,
\* and the block of a run that ends in a blank line holds exactly the lines
\* of the run without that last blank line.
C4_TrailingBlankTrimmed ==
    FileDone =>
        LET runs == CodeRuns(Document)
        IN  (\E k \in 1..Len(runs) : EndsBlank(runs[k])) =>
                /\ Len(CodeBlocks) = Len(runs)
                /\ \A k \in 1..Len(runs) :
                       EndsBlank(runs[k]) =>
                           CodeBlocks[k] = SubSeq(runs[k], 1, Len(runs[k]) - 1)

(* ---------------------------------------------------------------------- *)
(* C5: segment round trip                                                 *)
(* ---------------------------------------------------------------------- *)

\* C5: once a document is converted, the lines of its segments, in order,
\* are the lines of the document with nothing but blank lines left out: no
\* other line is missing, duplicated or moved.  (The claim lets only the
\* blank line that ends a code run be left out; this formula lets any blank
\* line be.)
C5_SegmentsRoundTrip ==
    FileDone =>
        \E dropped \in SUBSET {i \in 1..Len(Document) : is_blank(Document[i])} :
            Concat([k \in 1..Len(segments) |-> segments[k].lines])
                = Without(Document, dropped)

(* ---------------------------------------------------------------------- *)
(* C6: segment alternation                                                *)
(* ---------------------------------------------------------------------- *)

\* C6: no two adjacent segments emitted by the main loop have the same kind.
C6_SegmentsAlternate ==
    \A k \in 1..(Len(segments) - 1) : segments[k].kind # segments[k + 1].kind

\* Three blocks have been emitted for one document.
C6_Witness ==
    /\ Len(segments) >= 3
    /\ segments[1].kind = "Code"
    /\ segments[2].kind = "Prose"

(* ---------------------------------------------------------------------- *)
(* C7: single-kind documents                                              *)
(* ---------------------------------------------------------------------- *)

\* C7: a document of comment and blank lines only is rendered as one Prose
\* block and no Code block; a non-empty document of code lines only is
\* rendered as one Code block and no Prose block.  (Checked on the documents
\* that hold at least one comment line, resp. one code line.)
C7_SingleKindDocuments ==
    FileDone =>
        /\ (/\ \E i \in 1..Len(Document) : is_comment(Document[i])
            /\ \A i \in 1..Len(Document) :
                   is_comment(Document[i]) \/ is_blank(Document[i]))
           => /\ Cardinality(SegmentsOfKind("Prose")) = 1
              /\ Cardinality(SegmentsOfKind("Code")) = 0
        /\ (/\ Document # <<>>
            /\ \A i \in 1..Len(Document) : IsCodeLine(Document[i]))
           => /\ Cardinality(SegmentsOfKind("Code")) = 1
              /\ Cardinality(SegmentsOfKind("Prose")) = 0

(* ---------------------------------------------------------------------- *)
(* C8: link rewriting                                                     *)
(* ---------------------------------------------------------------------- *)

\* A token rendered on its own: its word becomes a link iff its page exists.
RenderToken(token, fs) ==
    LET word == link_word(token)
    IN  IF isfile(fs, link_filename(word))
        THEN Replace(token, word, link_format(link_filename(word), word))
        ELSE token

\* A line rendered token by token: the whitespace is kept, and every
\* whitespace-delimited token is rendered on its own.
RECURSIVE RenderTokens(_, _)
RenderTokens(text, fs) ==
    IF text = <<>> THEN <<>>
    ELSE IF Head(text) \in WhiteSpace
         THEN <<Head(text)>> \o RenderTokens(Tail(text), fs)
         ELSE LET ws == {i \in 1..Len(text) : text[i] \in WhiteSpace}
                  stop == IF ws = {} THEN Len(text) + 1
                          ELSE CHOOSE i \in ws : \A j \in ws : i <= j
              IN  RenderToken(SubSeq(text, 1, stop - 1), fs)
                  \o RenderTokens(SubSeq(text, stop, Len(text)), fs)

\* C8: every line of a Code block is rendered token by token: a token is a
\* link to its page iff that page exists when the line is rendered, and a
\* token without a page is unchanged whatever else is on the line.
C8_LinkIffPageExists ==
    pc = "loop" =>
        \A k \in SegmentsOfKind("Code") :
            \A n \in 1..Len(segments[k].lines) :
                segments[k].rendered[n] = RenderTokens(segments[k].lines[n], html)

(* ---------------------------------------------------------------------- *)
(* C9: metadata extraction                                                *)
(* ---------------------------------------------------------------------- *)

IsHeaderOrBlank(l) == is_header(l) \/ is_blank(l)

\* Number of lines in the leading run of header and blank lines.
LeadingRun(d) ==
    CHOOSE n \in 0..Len(d) :
        /\ \A i \in 1..n : IsHeaderOrBlank(d[i])
        /\ n = Len(d) \/ ~IsHeaderOrBlank(d[n + 1])

\* Number of consecutive comment lines from position start on.
CommentRun(d, start) ==
    CHOOSE n \in 0..(Len(d) - start + 1) :
        /\ \A i \in start..(start + n - 1) : is_comment(d[i])
        /\ start + n > Len(d) \/ ~is_comment(d[start + n])

\* A line without its comment marker, the slashes it starts with.
WithoutMarker(l) ==
    LET n == CHOOSE m \in 0..Len(l) :
                 /\ \A i \in 1..m : l[i] = "/"
                 /\ m = Len(l) \/ l[m + 1] # "/"
    IN  SubSeq(l, n + 1, Len(l))

NotNewline(c) == c # "\n"

\* text without the whitespace around it
Trimmed(text) ==
    LET inside == {i \in 1..Len(text) : text[i] \notin WhiteSpace}
    IN  IF inside = {} THEN <<>>
        ELSE SubSeq(text,
                    CHOOSE i \in inside : \A j \in inside : i <= j,
                    CHOOSE i \in inside : \A j \in inside : i >= j)

\* The first paragraph of d as the claim describes it.
FirstParagraph(d) ==
    LET start == LeadingRun(d) + 1
        count == CommentRun(d, start)
        text == Concat([i \in 1..count |-> WithoutMarker(d[start + i - 1])])
    IN  Trimmed(SelectSeq(text, NotNewline))

\* C9: once the first-paragraph pass has run on a document, the
\* meta-description is the first paragraph of the document (after the leading
\* header and blank lines, the comment lines up to the first line that is
\* not a comment, without markers and newlines, trimmed), and the page
\* starts with the header that carries it.
C9_MetaDescription ==
    (pc = "loop" \/ JustDone) =>
        /\ meta_description = FirstParagraph(Document)
        /\ StartsWith(processed_contents,
                      header_format(FirstParagraph(Document),
                                    filename_to_title(verilog_filename),
                                    verilog_filename))

\* The claim's example: two comment lines and a blank line give the two
\* texts joined.
C9_Witness ==
    /\ pc = "loop"
    /\ Document = <<LineComment, LineComment, LineBlank>>
    /\ meta_description = <<"c", " ", "c">>

(* ---------------------------------------------------------------------- *)
(* C10: status reporting                                                  *)
(* ---------------------------------------------------------------------- *)

IsStatusLine(text, path) ==
    text = <<"Updating ">> \o path \/ text = <<"Skipping ">> \o path

EndsIn(path, suffix) ==
    /\ Len(path) >= Len(suffix)
    /\ SubSeq(path, Len(path) - Len(suffix) + 1, Len(path)) = suffix

\* The path with its trailing .v or .vh replaced by .html.
WithHtmlExtension(path) ==
    IF EndsIn(path, DotVh) THEN SubSeq(path, 1, Len(path) - 3) \o DotHtml
    ELSE SubSeq(path, 1, Len(path) - 2) \o DotHtml

\* C11: while a recognized input is converted, the output path is the input
\* path with its trailing .v or .vh replaced by .html, every other character
\* unchanged.
C11_OutputPathKeepsStem ==
    (pc = "loop" \/ JustDone) =>
        html_filename = WithHtmlExtension(verilog_filename)

(* ---------------------------------------------------------------------- *)
(* C12: unrecognized arguments                                            *)
(* ---------------------------------------------------------------------- *)

\* The loop is at an argument that ends in neither .v nor .vh.
AtUnrecognizedArg ==
    /\ pc = "args"
    /\ argi <= Len(argv)
    /\ ~EndsIn(argv[argi], DotV)
    /\ ~EndsIn(argv[argi], DotVh)

\* C12: the step taken at an argument that ends in neither .v nor .vh opens
\* no file, writes no file, prints nothing and moves on to the next argument.
C12_UnrecognizedArgSkipped ==
    [][ AtUnrecognizedArg =>
            /\ html' = html
            /\ src' = src
            /\ f' = f
            /\ existing_file_contents' = existing_file_contents
            /\ stdout' = stdout
            /\ stderr' = stderr
            /\ wrote' = wrote
            /\ handled' = handled
            /\ pc' = "args"
            /\ argi' = argi + 1
      ]_vars

\* a.t has been passed over, in a batch where it has a file of that name.
C12_Witness ==
    /\ pc = "args"
    /\ argi > 1
    /\ argv[argi - 1] = NameOther
    /\ NameOther \in DOMAIN src
    /\ verilog_filename = NameOther
    /\ stdout = <<>>
    /\ html = prev_html


(* ---------------------------------------------------------------------- *)
(* C13: the metadata pass and the main pass                               *)
(* ---------------------------------------------------------------------- *)

\* All the lines placed in segments so far, in the order they were placed.
SegmentLines == Concat([k \in 1..Len(segments) |-> segments[k].lines])

\* The first line of d that is not blank, the line a pass over d from its
\* top places first.
FirstPlaced(d) ==
    d[CHOOSE i \in 1..Len(d) :
          /\ ~is_blank(d[i])
          /\ \A j \in 1..(i - 1) : is_blank(d[j])]

ClosesSegment == pc = "loop" /\ Len(segments') = Len(segments) + 1

\* The lines the step took: the line the segment was opened on, then the
\* lines read up to (and without) the line the step stopped at.
TakenByStep ==
    <<line>> \o SubSeq(Document, f.pos + 1,
                       IF is_eof(line') THEN f'.pos ELSE f'.pos - 1)

\* C14: a segment opened on a comment line is Prose and takes every comment
\* and blank line up to the first Code line; any other segment is Code and
\* takes every line up to the first comment line (less a blank line at its
\* end).  The line that closes a segment is never blank, and the end of the
\* document closes the open segment and ends the pass.
C14_SegmenterTransitions ==
    [][ /\ ClosesSegment =>
            LET seg == segments'[Len(segments')]
            IN  /\ seg.kind = (IF is_comment(line) THEN "Prose" ELSE "Code")
                /\ ~is_eof(line') => line' = Document[f'.pos]
                /\ is_eof(line') => f'.pos = Len(Document)
                /\ ~is_blank(line')
                /\ seg.kind = "Prose" =>
                       /\ seg.lines = TakenByStep
                       /\ \A l \in Elements(TakenByStep) :
                              is_comment(l) \/ is_blank(l)
                       /\ is_eof(line') \/ IsCodeLine(line')
                /\ seg.kind = "Code" =>
                       /\ seg.lines = (IF EndsBlank(TakenByStep)
                                       THEN SubSeq(TakenByStep, 1,
                                                   Len(TakenByStep) - 1)
                                       ELSE TakenByStep)
                       /\ \A l \in Elements(TakenByStep) : ~is_comment(l)
                       /\ is_eof(line') \/ is_comment(line')
        /\ (pc = "loop" /\ is_eof(line)) =>
               (pc' = "args" /\ segments' = segments)
      ]_vars

\* A Prose segment that holds a blank line has been closed by a Code line,
\* and the Code segment after it by the end of the document.
C14_Witness ==
    /\ pc = "loop"
    /\ is_eof(line)
    /\ \E k \in 1..(Len(segments) - 1) :
           /\ segments[k].kind = "Prose"
           /\ LineBlank \in Elements(segments[k].lines)
           /\ segments[k + 1].kind = "Code"


(* ---------------------------------------------------------------------- *)
(* C15: no empty code segment                                             *)
(* ---------------------------------------------------------------------- *)

\* C15: process_code is entered on Code lines only, so every code segment
\* starts with the Code line it was entered on and keeps at least that line
\* after the trim, and no conversion ends in the IndexError of the trim.
C15_NoEmptyCodeSegment ==
    /\ <<"IndexError">> \notin Elements(stderr)
    /\ \A k \in SegmentsOfKind("Code") :
           /\ Len(segments[k].lines) >= 1
           /\ IsCodeLine(segments[k].lines[1])
           /\ Len(segments[k].rendered) = Len(segments[k].lines)

\* The document ends with a blank line after a single Code line: the trim
\* removed the blank line and left a code segment of one line.
C15_Witness ==
    /\ JustDone
    /\ Document # <<>>
    /\ is_blank(Document[Len(Document)])
    /\ segments # <<>>
    /\ segments[Len(segments)].kind = "Code"
    /\ Len(segments[Len(segments)].lines) = 1


(* ---------------------------------------------------------------------- *)
(* C16: batch order independence                                          *)
(* ---------------------------------------------------------------------- *)

\* C16: what is rendered for a file does not depend on the files of the
\* batch converted before it: every code line is rendered as it would be
\* against the output directory the run started from.
C16_RenderedAsFromInitialDirectory ==
    (pc = "loop" \/ JustDone) =>
        \A k \in SegmentsOfKind("Code") :
            \A n \in 1..Len(segments[k].lines) :
                segments[k].rendered[n]
                    = add_file_links(segments[k].lines[n], prev_html)


(* ---------------------------------------------------------------------- *)
(* C17: header lines and the metadata                                     *)
(* ---------------------------------------------------------------------- *)

\* part occurs in text
Contains(text, part) ==
    \E i \in 1..(Len(text) - Len(part) + 1) :
        SubSeq(text, i, i + Len(part) - 1) = part

\* The text of a header line: the line without its slashes and its newline.
HeaderText(l) == Trimmed(SelectSeq(WithoutMarker(l), NotNewline))

\* C17: the meta-description holds the text of no header line of the
\* document, wherever the header line is.
C17_NoHeaderInMetadata ==
    (pc = "loop" \/ JustDone) =>
        \A i \in 1..Len(Document) :
            is_header(Document[i]) =>
                ~Contains(meta_description, HeaderText(Document[i]))


(* ---------------------------------------------------------------------- *)
(* C18: convergence of repeated runs                                      *)
(* ---------------------------------------------------------------------- *)

\* Every recognized argument names an input file that exists.
ReadableBatch == \A i \in RecognizedArgs : argv[i] \in DOMAIN src

\* No two recognized arguments have the same output path.
DistinctOutputs ==
    \A i, j \in RecognizedArgs :
        i # j => output_filename(argv[i]) # output_filename(argv[j])

\* C18: for a batch of readable inputs with pairwise distinct output paths,
\* whatever the output directory held before the first run, the third run
\* (and every later one) writes nothing and leaves the output directory as
\* the second run left it.
C18_ThirdRunWritesNothing ==
    (run >= 3 /\ ReadableBatch /\ DistinctOutputs) =>
        (wrote = <<>> /\ html = prev_html)

\* The third run of a batch of two files is complete, and wrote nothing.
C18_Witness ==
    /\ run = 3
    /\ pc = "exit"
    /\ Len(handled) = 2
    /\ \A i \in 1..Len(handled) : output_filename(handled[i]) \in DOMAIN html
    /\ wrote = <<>>


(* ---------------------------------------------------------------------- *)
(* C19: one hyperlink per linkable token                                  *)
(* ---------------------------------------------------------------------- *)

\* The text every inserted hyperlink starts with.
LinkOpening == <<"<", "a", " ", "h", "r", "e", "f", "=">>

\* Number of places of text where part occurs.
CountOccurrences(text, part) ==
    Cardinality({i \in 1..(Len(text) - Len(part) + 1) :
                     SubSeq(text, i, i + Len(part) - 1) = part})

\* The tokens of a line whose page exists, by their position in the line.
LinkableTokens(text, fs) ==
    {k \in 1..Len(Split(text)) :
         isfile(fs, link_filename(link_word(Split(text)[k])))}

\* C19: a rendered code line holds exactly one hyperlink for each occurrence
\* of a linkable token of the line, and no other: nothing is linked twice,
\* and neither a part of another word nor the text of an inserted hyperlink
\* is linked.
C19_OneLinkPerLinkableToken ==
    pc = "loop" =>
        \A k \in SegmentsOfKind("Code") :
            \A n \in 1..Len(segments[k].lines) :
                CountOccurrences(segments[k].rendered[n], LinkOpening)
                    = Cardinality(LinkableTokens(segments[k].lines[n], html))


(* ---------------------------------------------------------------------- *)
(* C20: termination                                                       *)
(* ---------------------------------------------------------------------- *)

\* The lines the main pass still has to handle: the current line, when
\* there is one, and the lines after the cursor.
Remaining == (Len(Document) - f.pos) + (IF is_eof(line) THEN 0 ELSE 1)

\* C20: the conversion of a readable document terminates.  The main pass
\* starts after a rewind to the top; every iteration of the loop (prose,
\* code or blank-skip) leaves fewer lines to handle, and never fewer than
\* none; and the loop is left only at EOF, with the footer added.
C20_ConversionTerminates ==
    [][ /\ (pc = "args" /\ pc' = "loop") =>
               (f'.pos = 0 /\ Remaining' <= Len(Document') + 1)
        /\ (pc = "loop" /\ pc' = "loop") =>
               (Remaining' < Remaining /\ Remaining' >= 0)
        /\ (pc = "loop" /\ pc' # "loop") =>
               /\ is_eof(line)
               /\ pc' = "args"
               /\ processed_contents' = processed_contents \o footer
               /\ FileDone'
      ]_vars

\* A document that starts with a blank line has been converted through the
\* three branches of the loop, and its page ends with the footer.
C20_Witness ==
    /\ JustDone
    /\ Document # <<>>
    /\ is_blank(Document[1])
    /\ SegmentsOfKind("Prose") # {}
    /\ SegmentsOfKind("Code") # {}
    /\ EndsIn(processed_contents, footer)

====
